---- MODULE Spec2Model ----
(***************************************************************************)
(* Soo Nova Defense (src/src/App.tsx): the per-frame simulation of the     *)
(* game component as a state machine.                                      *)
(*                                                                         *)
(* Numbers.  The program computes in IEEE doubles; the model computes in   *)
(* fixed point, one unit = 1/100 pixel (and 1/100 of alpha / life /        *)
(* shake).  Every constant of the program that is used below is therefore  *)
(* written times 100: ROCKET_BASE_SPEED 1.2 is 120, a radius of 75 is      *)
(* 7500, an alpha step of 0.02 is 2.  Score, ammo, round and milliseconds  *)
(* are plain integers.                                                     *)
(*                                                                         *)
(* Not modelled: ids (Math.random()), colours, the canvas drawing, the     *)
(* language switch; the random velocity and size of the particles (a       *)
(* burst of n particles is one record with its origin, life and count).    *)
(***************************************************************************)
EXTENDS Integers, Sequences, FiniteSets, TLC

VARIABLES
    gameState,          \* useState<GameState>             App.tsx:163
    gameMode,           \* useState<GameMode>              App.tsx:164
    score,              \* useState(0)                     App.tsx:165
    highScore,          \* useState + localStorage         App.tsx:166-169
    round,              \* useState(1)                     App.tsx:170
    loopRound,          \* `round` as captured by the update closure the
                        \* animation loop is running       App.tsx:659-669
    shake,              \* useState(0)                     App.tsx:171
    hasRefilledAt500,   \* useRef(false)                   App.tsx:172
    lastRefillScore,    \* useRef(0)                       App.tsx:173
    rockets,            \* rocketsRef                      App.tsx:176
    interceptors,       \* interceptorsRef                 App.tsx:177
    explosions,         \* explosionsRef                   App.tsx:178
    particles,          \* particlesRef                    App.tsx:179
    floatingTexts,      \* floatingTextsRef                App.tsx:180
    warnings,           \* warningsRef                     App.tsx:181
    turrets,            \* turretsRef                      App.tsx:182-186
    cities,             \* citiesRef                       App.tsx:187
    nextRocketTime,     \* nextRocketTimeRef, kept relative to the time
                        \* stamp of the last frame (ms still to wait; 0
                        \* when the threshold is already behind)  App.tsx:188
    width, height,      \* canvas.width, canvas.height, pixels  App.tsx:651-652
    lastOp,             \* history: the handler that made the last step
    script,             \* environment: the recorded inputs still to replay
    budget              \* environment: the free inputs still allowed

vars == <<gameState, gameMode, score, highScore, round, loopRound, shake,
          hasRefilledAt500, lastRefillScore, rockets, interceptors,
          explosions, particles, floatingTexts, warnings, turrets, cities,
          nextRocketTime, width, height, lastOp, script, budget>>

\* the variables of the program
prog == <<gameState, gameMode, score, highScore, round, loopRound, shake,
          hasRefilledAt500, lastRefillScore, rockets, interceptors,
          explosions, particles, floatingTexts, warnings, turrets, cities,
          nextRocketTime, width, height>>

-----------------------------------------------------------------------------
(* Program constants (App.tsx:87-92), lengths in 1/100 pixel.              *)

WIN_SCORE == 1000
ROCKET_SCORE == 20
EXPLOSION_SPEED == 180
EXPLOSION_MAX_RADIUS == 7500
INTERCEPTOR_SPEED == 900
ROCKET_BASE_SPEED == 120

\* n pixels (or n whole units of alpha, life, shake) in model units
Px(n) == 100 * n

Point(x, y) == [x |-> x, y |-> y]

-----------------------------------------------------------------------------
(* Bounds of the model.                                                    *)

\* container.clientWidth / clientHeight in pixels (App.tsx:650)
CanvasWidth == 140
CanvasHeight == 44

\* the number of inputs the environment makes freely after its recorded
\* opening
MaxFree == 6

-----------------------------------------------------------------------------
(* Arithmetic of the program on the fixed-point numbers.                   *)

Abs(a) == IF a < 0 THEN -a ELSE a

Max(a, b) == IF a >= b THEN a ELSE b

\* a / b rounded towards zero (b > 0)
Quot(a, b) == IF a >= 0 THEN a \div b ELSE -((-a) \div b)

RECURSIVE SqrtIter(_, _, _)
SqrtIter(n, lo, hi) ==
    IF lo >= hi THEN lo
    ELSE LET mid == (lo + hi + 1) \div 2
         IN  IF mid * mid <= n THEN SqrtIter(n, mid, hi)
             ELSE SqrtIter(n, lo, mid - 1)

\* Math.sqrt, rounded down to the unit
Sqrt(n) == SqrtIter(n, 0, 46340)

\* a `current` position: nan is TRUE when both coordinates are NaN
Cur(x, y) == [x |-> x, y |-> y, nan |-> FALSE]
NaNCur == [x |-> 0, y |-> 0, nan |-> TRUE]

\* variant: dx and dy are taken from `to` to `from`
AdvanceAway(cur, from, to, speed) ==
    LET dx == from.x - to.x
        dy == from.y - to.y
        dist == Sqrt(dx * dx + dy * dy)
    IN  IF cur.nan \/ dist = 0 THEN NaNCur
        ELSE Cur(cur.x + Quot(dx * speed, dist), cur.y + Quot(dy * speed, dist))

\* current.x += (dx / dist) * speed; current.y += (dy / dist) * speed, with
\* dx, dy, dist taken from `from` to `to`.  dist = 0 gives 0 / 0 = NaN in
\* both coordinates, and NaN stays NaN.
Advance(cur, from, to, speed) ==
    LET dx == to.x - from.x
        dy == to.y - from.y
        dist == Sqrt(dx * dx + dy * dy)
    IN  IF cur.nan \/ dist = 0 THEN NaNCur
        ELSE Cur(cur.x + Quot(dx * speed, dist), cur.y + Quot(dy * speed, dist))

\* Math.sqrt(dx*dx + dy*dy) < radius, for the point p and the centre c
Within(p, c, radius) ==
    LET dx == p.x - c.x
        dy == p.y - c.y
    IN  radius > 0 /\ dx * dx + dy * dy < radius * radius

-----------------------------------------------------------------------------
(* initLayout (App.tsx:190-202)                                            *)

GroundY(h) == Px(h) - Px(40)

Turret(x, y, maxAmmo) ==
    [x |-> x, y |-> y, ammo |-> maxAmmo, maxAmmo |-> maxAmmo, active |-> TRUE]

LayoutTurrets(w, h) ==
    << Turret(Px(60), GroundY(h), 20),
       Turret(Px(w) \div 2, GroundY(h), 40),
       Turret(Px(w) - Px(60), GroundY(h), 20) >>

\* width * 0.18, ... in 1/100 pixel
LayoutCities(w, h) ==
    [i \in 1..6 |->
        [x |-> w * <<18, 28, 38, 62, 72, 82>>[i],
         y |-> GroundY(h), active |-> TRUE]]

-----------------------------------------------------------------------------
(* Entities                                                                *)

Explosion(pos, maxRadius) ==
    [pos |-> pos, radius |-> Px(2), maxRadius |-> maxRadius,
     growing |-> TRUE, alpha |-> Px(1)]

\* createParticles(x, y, color, count) (App.tsx:204-216): one burst record
Burst(x, y, count) == [x |-> x, y |-> y, life |-> Px(1), count |-> count]

\* addFloatingText(x, y, text, color) (App.tsx:218-223)
FloatingText(x, y, text) == [x |-> x, y |-> y, text |-> text, life |-> Px(1)]

-----------------------------------------------------------------------------
(* Init: the component after its first render and mount effect.  The mount *)
(* effect runs handleResize, which lays the field out in state START       *)
(* (App.tsx:647-657); stored is the high score localStorage holds.          *)

Boot(stored) ==
    /\ gameState = "START"
    /\ gameMode = "CLASSIC"
    /\ score = 0
    /\ highScore = stored
    /\ round = 1
    /\ loopRound = 1
    /\ shake = 0
    /\ hasRefilledAt500 = FALSE
    /\ lastRefillScore = 0
    /\ rockets = << >>
    /\ interceptors = << >>
    /\ explosions = << >>
    /\ particles = << >>
    /\ floatingTexts = << >>
    /\ warnings = << >>
    /\ width = CanvasWidth
    /\ height = CanvasHeight
    /\ turrets = LayoutTurrets(CanvasWidth, CanvasHeight)
    /\ cities = LayoutCities(CanvasWidth, CanvasHeight)
    /\ nextRocketTime = 0
    /\ lastOp = "mount"

-----------------------------------------------------------------------------
(* startGame (App.tsx:229-247).  The buttons that call it are rendered     *)
(* only in state START (App.tsx:733, 773, 780).  The state change re-runs  *)
(* the loop effect, so the loop sees the new round.                        *)

\* variant: explosionsRef is not cleared
startGameKeepingBlasts(mode) ==
    /\ gameState = "START"
    /\ score' = 0
    /\ round' = 1
    /\ loopRound' = 1
    /\ gameMode' = mode
    /\ hasRefilledAt500' = FALSE
    /\ lastRefillScore' = 0
    /\ rockets' = << >>
    /\ interceptors' = << >>
    /\ particles' = << >>
    /\ floatingTexts' = << >>
    /\ warnings' = << >>
    /\ turrets' = LayoutTurrets(width, height)
    /\ cities' = LayoutCities(width, height)
    /\ gameState' = "PLAYING"
    /\ lastOp' = "startGame"
    /\ UNCHANGED <<highScore, shake, nextRocketTime, width, height, explosions>>

startGame(mode) ==
    /\ gameState = "START"
    /\ score' = 0
    /\ round' = 1
    /\ loopRound' = 1
    /\ gameMode' = mode
    /\ hasRefilledAt500' = FALSE
    /\ lastRefillScore' = 0
    /\ rockets' = << >>
    /\ interceptors' = << >>
    /\ explosions' = << >>
    /\ particles' = << >>
    /\ floatingTexts' = << >>
    /\ warnings' = << >>
    /\ turrets' = LayoutTurrets(width, height)
    /\ cities' = LayoutCities(width, height)
    /\ gameState' = "PLAYING"
    /\ lastOp' = "startGame"
    /\ UNCHANGED <<highScore, shake, nextRocketTime, width, height>>

(* The "play again" buttons of the WON and LOST overlays: setGameState     *)
(* ('START') (App.tsx:799, 826).  The state change re-runs the effect,     *)
(* whose handleResize lays the field out again in state START              *)
(* (App.tsx:653).                                                          *)

playAgain ==
    /\ gameState \in {"WON", "LOST"}
    /\ gameState' = "START"
    /\ turrets' = LayoutTurrets(width, height)
    /\ cities' = LayoutCities(width, height)
    /\ loopRound' = round
    /\ lastOp' = "playAgain"
    /\ UNCHANGED <<gameMode, score, highScore, round, shake, hasRefilledAt500,
                   lastRefillScore, rockets, interceptors, explosions,
                   particles, floatingTexts, warnings, nextRocketTime,
                   width, height>>

-----------------------------------------------------------------------------
(* handleCanvasClick (App.tsx:272-312), p the click point in canvas        *)
(* coordinates.                                                            *)

\* (turret.x - x)^2 + (turret.y - y)^2: the program compares the square
\* roots, which order as the squares do
Dist2(t, p) == (t.x - p.x) * (t.x - p.x) + (t.y - p.y) * (t.y - p.y)

\* variant: a turret fires whatever its ammunition
EligibleWhateverAmmo(ts, i) == ts[i].active

Eligible(ts, i) == ts[i].active /\ ts[i].ammo > 0

\* variant: dist <= minDist, the last turret of minimum distance
BestTurretIndexLast(ts, p) ==
    IF \A i \in 1..Len(ts) : ~Eligible(ts, i) THEN 0
    ELSE CHOOSE i \in 1..Len(ts) :
            /\ Eligible(ts, i)
            /\ \A j \in 1..Len(ts) : Eligible(ts, j) =>
                  \/ Dist2(ts[i], p) < Dist2(ts[j], p)
                  \/ Dist2(ts[i], p) = Dist2(ts[j], p) /\ i >= j

\* the forEach of App.tsx:288-298: the first index of minimum distance
\* among the eligible turrets, 0 when there is none (the program's -1)
BestTurretIndex(ts, p) ==
    IF \A i \in 1..Len(ts) : ~Eligible(ts, i) THEN 0
    ELSE CHOOSE i \in 1..Len(ts) :
            /\ Eligible(ts, i)
            /\ \A j \in 1..Len(ts) : Eligible(ts, j) =>
                  \/ Dist2(ts[i], p) < Dist2(ts[j], p)
                  \/ Dist2(ts[i], p) = Dist2(ts[j], p) /\ i <= j

Interceptor(t, p, index) ==
    [start |-> Point(t.x, t.y), target |-> p, current |-> Cur(t.x, t.y),
     speed |-> INTERCEPTOR_SPEED, turretIndex |-> index]

handleCanvasClick(p) ==
    /\ lastOp' = "click"
    /\ IF gameState # "PLAYING" \/ BestTurretIndex(turrets, p) = 0
       THEN UNCHANGED <<turrets, interceptors>>
       ELSE LET b == BestTurretIndex(turrets, p)
            IN  /\ turrets' = [turrets EXCEPT ![b].ammo = @ - 1]
                /\ interceptors' = Append(interceptors, Interceptor(turrets[b], p, b))
    /\ UNCHANGED <<gameState, gameMode, score, highScore, round, loopRound,
                   shake, hasRefilledAt500, lastRefillScore, rockets,
                   explosions, particles, floatingTexts, warnings, cities,
                   nextRocketTime, width, height>>

-----------------------------------------------------------------------------
(* spawnRocket (App.tsx:249-270).  rx and rt are the two Math.random()     *)
(* draws, in hundredths: startX = rx/100 * width, and the target is        *)
(* targets[floor(rt/100 * targets.length)].  The speed is taken from the   *)
(* round the running update closure captured.                              *)

\* variant: the structures are not filtered by `active`
TargetsWhateverActive(cs, ts) ==
    LET PosOf(seq) == [i \in 1..Len(seq) |-> Point(seq[i].x, seq[i].y)]
    IN  PosOf(cs) \o PosOf(ts)

Targets(cs, ts) ==
    LET IsActive(e) == e.active
        PosOf(seq) == [i \in 1..Len(seq) |-> Point(seq[i].x, seq[i].y)]
    IN  PosOf(SelectSeq(cs, IsActive)) \o PosOf(SelectSeq(ts, IsActive))

Rocket(startX, target, rnd) ==
    [start |-> Point(startX, 0), end |-> target, current |-> Cur(startX, 0),
     speed |-> ROCKET_BASE_SPEED + rnd * 15]

\* [rockets, warnings] after spawnRocket
spawnRocket(w, rs, ws, cs, ts, rnd, rx, rt) ==
    LET startX == (rx * Px(w)) \div 100
        targets == Targets(cs, ts)
    IN  IF Len(targets) = 0 THEN [rockets |-> rs, warnings |-> ws]
        ELSE LET target == targets[(rt * Len(targets)) \div 100 + 1]
             IN  [rockets |-> Append(rs, Rocket(startX, target, rnd)),
                  warnings |-> Append(ws, [x |-> startX, life |-> Px(1)])]

\* Math.max(400, 2000 - round * 150) (App.tsx:324)
SpawnInterval(rnd) == Max(400, 2000 - rnd * 150)

-----------------------------------------------------------------------------
(* update, the rockets pass (App.tsx:327-350).  acc carries the arrays the *)
(* callback writes to: rockets (those kept), explosions, particles, cities,*)
(* turrets, and hit (triggerShake(12) was called).                         *)

\* variant: the distance is taken without Math.abs
DeactivateOneSided(seq, x) ==
    [i \in 1..Len(seq) |->
        IF seq[i].active /\ seq[i].x - x < Px(25)
        THEN [seq[i] EXCEPT !.active = FALSE] ELSE seq[i]]

\* App.tsx:341-346: active structures within 25 px of x in the horizontal
Deactivate(seq, x) ==
    [i \in 1..Len(seq) |->
        IF seq[i].active /\ Abs(seq[i].x - x) < Px(25)
        THEN [seq[i] EXCEPT !.active = FALSE] ELSE seq[i]]

RocketArrived(cur, r) == ~cur.nan /\ cur.y >= r.end.y

RECURSIVE MoveRockets(_, _, _)
MoveRockets(rs, i, acc) ==
    IF i > Len(rs) THEN acc
    ELSE LET r == rs[i]
             cur == Advance(r.current, r.start, r.end, r.speed)
         IN  IF RocketArrived(cur, r)
             THEN MoveRockets(rs, i + 1,
                    [acc EXCEPT
                       !.explosions = Append(@, Explosion(Point(cur.x, cur.y), Px(55))),
                       !.particles = Append(@, Burst(cur.x, cur.y, 20)),
                       !.cities = Deactivate(@, cur.x),
                       !.turrets = Deactivate(@, cur.x),
                       !.hit = TRUE])
             ELSE MoveRockets(rs, i + 1,
                    [acc EXCEPT !.rockets = Append(@, [r EXCEPT !.current = cur])])

(* update, the interceptors pass (App.tsx:352-366)                         *)

InterceptorArrived(cur, inter) == ~cur.nan /\ cur.y <= inter.target.y

RECURSIVE MoveInterceptors(_, _, _)
MoveInterceptors(is, i, acc) ==
    IF i > Len(is) THEN acc
    ELSE LET inter == is[i]
             cur == Advance(inter.current, inter.start, inter.target, inter.speed)
         IN  IF InterceptorArrived(cur, inter)
             THEN MoveInterceptors(is, i + 1,
                    [acc EXCEPT !.explosions =
                        Append(@, Explosion(inter.target, EXPLOSION_MAX_RADIUS))])
             ELSE MoveInterceptors(is, i + 1,
                    [acc EXCEPT !.interceptors =
                        Append(@, [inter EXCEPT !.current = cur])])

-----------------------------------------------------------------------------
(* update, the explosions pass (App.tsx:368-392).                          *)

\* App.tsx:369-375
\* variant: `growing` is computed anew from the radius in every frame
StepExplosionRegrow(e) ==
    IF e.growing
    THEN [e EXCEPT !.radius = e.radius + EXPLOSION_SPEED,
                   !.growing = ~(e.radius + EXPLOSION_SPEED >= e.maxRadius)]
    ELSE [e EXCEPT !.radius = e.radius - (EXPLOSION_SPEED * 4) \div 10,
                   !.alpha = e.alpha - 2,
                   !.growing = ~(e.radius - (EXPLOSION_SPEED * 4) \div 10
                                    >= e.maxRadius)]

StepExplosion(e) ==
    IF e.growing
    THEN [e EXCEPT !.radius = e.radius + EXPLOSION_SPEED,
                   !.growing = ~(e.radius + EXPLOSION_SPEED >= e.maxRadius)]
    ELSE [e EXCEPT !.radius = e.radius - (EXPLOSION_SPEED * 4) \div 10,
                   !.alpha = e.alpha - 2]

\* App.tsx:378-380
Destroyed(r, e) == ~r.current.nan /\ Within(r.current, e.pos, e.radius)

\* variant: the callback of the inner filter returns true after the kill,
\* and the rocket stays in the collection
KillAndKeep(acc, r) ==
    [acc EXCEPT
       !.gained = @ + ROCKET_SCORE,
       !.floatingTexts = Append(@, FloatingText(r.current.x, r.current.y, "+20")),
       !.particles = Append(@, Burst(r.current.x, r.current.y, 10)),
       !.old = Append(@, Explosion(Point(r.current.x, r.current.y),
                                   EXPLOSION_MAX_RADIUS)),
       !.rockets = Append(@, r)]

\* variant: setScore(score + ROCKET_SCORE), from the score of the closure:
\* the kills of one frame add up to a single reward
KillStale(acc, r) ==
    [acc EXCEPT
       !.gained = ROCKET_SCORE,
       !.floatingTexts = Append(@, FloatingText(r.current.x, r.current.y, "+20")),
       !.particles = Append(@, Burst(r.current.x, r.current.y, 10)),
       !.old = Append(@, Explosion(Point(r.current.x, r.current.y),
                                   EXPLOSION_MAX_RADIUS))]

\* App.tsx:381-389: what destroying rocket r does, besides dropping it.
\* setScore(s => s + ROCKET_SCORE) adds to the latest score; the chained
\* explosion is pushed onto explosionsRef.current, which during the outer
\* filter is still the array being filtered: acc.old.
Kill(acc, r) ==
    [acc EXCEPT
       !.gained = @ + ROCKET_SCORE,
       !.floatingTexts = Append(@, FloatingText(r.current.x, r.current.y, "+20")),
       !.particles = Append(@, Burst(r.current.x, r.current.y, 10)),
       !.old = Append(@, Explosion(Point(r.current.x, r.current.y),
                                   EXPLOSION_MAX_RADIUS))]

\* the inner rockets filter of one explosion e (App.tsx:377-390)
RECURSIVE KillRockets(_, _, _, _)
KillRockets(rs, i, e, acc) ==
    IF i > Len(rs) THEN acc
    ELSE IF Destroyed(rs[i], e)
         THEN KillRockets(rs, i + 1, e, Kill(acc, rs[i]))
         ELSE KillRockets(rs, i + 1, e, [acc EXCEPT !.rockets = Append(@, rs[i])])

\* The outer filter visits the elements the array had when filter was
\* called (n of them) and returns those for which the callback is true in
\* a new array; acc.kept is that array, acc.old the array filtered.
RECURSIVE StepExplosions(_, _, _)
StepExplosions(i, n, acc) ==
    IF i > n THEN acc
    ELSE LET e == StepExplosion(acc.old[i])
             a1 == [acc EXCEPT !.old[i] = e]
             a2 == KillRockets(a1.rockets, 1, e, [a1 EXCEPT !.rockets = << >>])
         IN  StepExplosions(i + 1, n,
                IF e.radius > 0 /\ e.alpha > 0
                THEN [a2 EXCEPT !.kept = Append(@, e)] ELSE a2)

-----------------------------------------------------------------------------
(* update, the decay of the visuals (App.tsx:394-410)                      *)

Alive(e) == e.life > 0

DecayParticles(ps) ==
    SelectSeq([i \in 1..Len(ps) |-> [ps[i] EXCEPT !.life = @ - 2]], Alive)

DecayTexts(fs) ==
    SelectSeq([i \in 1..Len(fs) |->
                 [fs[i] EXCEPT !.y = @ - Px(1), !.life = @ - 2]], Alive)

DecayWarnings(ws) ==
    SelectSeq([i \in 1..Len(ws) |-> [ws[i] EXCEPT !.life = @ - 2]], Alive)

-----------------------------------------------------------------------------
(* update, the refills (App.tsx:412-435, 447-450)                          *)

\* variant: a refill puts every turret back in service
RefillAll(ts) ==
    [i \in 1..Len(ts) |-> [ts[i] EXCEPT !.ammo = ts[i].maxAmmo, !.active = TRUE]]

\* t.ammo = t.maxAmmo on the active turrets
Refill(ts) ==
    [i \in 1..Len(ts) |->
        IF ts[i].active THEN [ts[i] EXCEPT !.ammo = ts[i].maxAmmo] ELSE ts[i]]

\* the "... REFILL" texts, one over each active turret
RefillTexts(ts, text) ==
    LET IsActive(t) == t.active
        act == SelectSeq(ts, IsActive)
    IN  [i \in 1..Len(act) |-> FloatingText(act[i].x, act[i].y - Px(40), text)]

\* variant: no latch
Refill500DueAgain(sc, latch) == sc >= 500

\* App.tsx:413
Refill500Due(sc, latch) == sc >= 500 /\ ~latch

\* variant: no comparison with the score of the last refill
Refill800DueAgain(mode, sc, last) == mode = "ENDLESS" /\ sc > 0 /\ sc % 800 = 0

\* App.tsx:426
Refill800Due(mode, sc, last) ==
    mode = "ENDLESS" /\ sc > 0 /\ sc % 800 = 0 /\ sc # last

\* variant: the win does not look at the mode
OutcomeWhateverMode(mode, sc, ts) ==
    IF sc >= WIN_SCORE THEN "WON"
    ELSE IF \A i \in 1..Len(ts) : ~ts[i].active THEN "LOST"
    ELSE "PLAYING"

\* variant: the loss is tested before the win
OutcomeLossFirst(mode, sc, ts) ==
    IF \A i \in 1..Len(ts) : ~ts[i].active THEN "LOST"
    ELSE IF mode = "CLASSIC" /\ sc >= WIN_SCORE THEN "WON"
    ELSE "PLAYING"

\* App.tsx:437-445: the state set by the terminal check of one tick
\* variant: the match is lost only when the turrets are also out of rounds
OutcomeLostWhenSpent(mode, sc, ts) ==
    IF mode = "CLASSIC" /\ sc >= WIN_SCORE THEN "WON"
    ELSE IF \A i \in 1..Len(ts) : ~ts[i].active /\ ts[i].ammo = 0 THEN "LOST"
    ELSE "PLAYING"

Outcome(mode, sc, ts) ==
    IF mode = "CLASSIC" /\ sc >= WIN_SCORE THEN "WON"
    ELSE IF \A i \in 1..Len(ts) : ~ts[i].active THEN "LOST"
    ELSE "PLAYING"

\* variant: the rockets in the air are not looked at
RoundOverWhateverRockets(rs, ts, is) ==
    (\A i \in 1..Len(ts) : ts[i].ammo = 0) /\ Len(is) = 0

\* variant: the score of a lost match is stored without comparing
NewHighScoreWhatever(outcome, sc, hs) == IF outcome = "LOST" THEN sc ELSE hs

\* App.tsx:439-443: the high score after the terminal check; it is written
\* (state and localStorage) only on the way to LOST
NewHighScore(outcome, sc, hs) == IF outcome = "LOST" /\ sc > hs THEN sc ELSE hs

\* variant: only the active turrets have to be out of ammunition
RoundOverActiveOnly(rs, ts, is) ==
    /\ Len(rs) = 0
    /\ \A i \in 1..Len(ts) : ts[i].active => ts[i].ammo = 0
    /\ Len(is) = 0

\* App.tsx:447
RoundOver(rs, ts, is) ==
    Len(rs) = 0 /\ (\A i \in 1..Len(ts) : ts[i].ammo = 0) /\ Len(is) = 0

-----------------------------------------------------------------------------
(* update (App.tsx:314-451), one frame of the animation loop.  dt is the   *)
(* time since the last frame in ms, rx and rt the random draws of a spawn. *)
(* score, round, gameMode, gameState, highScore and shake are read from    *)
(* the closure: a setScore made during the pass is seen by the next frame. *)

\* variant: the frames go on after the match has ended
HaltedAtStart(gs) == gs = "START"

\* App.tsx:315: the frame returns at once
Halted(gs) == gs # "PLAYING"

update(dt, rx, rt) ==
    IF Halted(gameState)
    THEN /\ nextRocketTime' = Max(0, nextRocketTime - dt)
         /\ lastOp' = "update"
         /\ UNCHANGED <<gameState, gameMode, score, highScore, round, loopRound,
                        shake, hasRefilledAt500, lastRefillScore, rockets,
                        interceptors, explosions, particles, floatingTexts,
                        warnings, turrets, cities, width, height>>
    ELSE
    \* each pass is bound once, in the order the passes run
    \E spawn \in {dt > nextRocketTime} :
    \E sp \in {IF spawn
               THEN spawnRocket(width, rockets, warnings, cities, turrets,
                                loopRound, rx, rt)
               ELSE [rockets |-> rockets, warnings |-> warnings]} :
    \* rockets pass
    \E a \in {MoveRockets(sp.rockets, 1,
                [rockets |-> << >>, explosions |-> explosions,
                 particles |-> particles, cities |-> cities,
                 turrets |-> turrets, hit |-> FALSE])} :
    \* interceptors pass
    \E b \in {MoveInterceptors(interceptors, 1,
                [interceptors |-> << >>, explosions |-> a.explosions])} :
    \* explosions pass
    \E c \in {StepExplosions(1, Len(b.explosions),
                [old |-> b.explosions, kept |-> << >>, rockets |-> a.rockets,
                 gained |-> 0, floatingTexts |-> floatingTexts,
                 particles |-> a.particles])} :
    \* refills
    \E r500 \in {Refill500Due(score, hasRefilledAt500)} :
    \E r800 \in {Refill800Due(gameMode, score, lastRefillScore)} :
    \E t1 \in {IF r500 THEN Refill(a.turrets) ELSE a.turrets} :
    \E f0 \in {DecayTexts(c.floatingTexts)} :
    \E f1 \in {IF r500
               THEN Append(f0 \o RefillTexts(a.turrets, "AMMO REFILLED!"),
                           FloatingText(Px(width) \div 2, Px(height) \div 2,
                                        "UNIVERSE MODE ACTIVATED!"))
               ELSE f0} :
    \E t2 \in {IF r800 THEN Refill(t1) ELSE t1} :
    \E f2 \in {IF r800 THEN f1 \o RefillTexts(t1, "800PT REFILL!") ELSE f1} :
    \* terminal check, round advance
    \E outcome \in {Outcome(gameMode, score, t2)} :
    \E over \in {RoundOver(c.rockets, t2, b.interceptors)} :
    \E newShake \in {IF r800 THEN Px(8)
                     ELSE IF r500 THEN Px(10)
                     ELSE IF a.hit THEN Px(12)
                     ELSE IF shake > 0 THEN Max(0, shake - 50)
                     ELSE shake} :
        /\ nextRocketTime' = IF spawn THEN SpawnInterval(loopRound)
                             ELSE nextRocketTime - dt
        /\ rockets' = c.rockets
        /\ interceptors' = b.interceptors
        \* explosionsRef.current = explosionsRef.current.filter(...): the
        \* new array; what the callback pushed onto the old one is dropped
        /\ explosions' = c.kept
        /\ particles' = DecayParticles(c.particles)
        /\ floatingTexts' = f2
        /\ warnings' = DecayWarnings(sp.warnings)
        /\ cities' = a.cities
        /\ turrets' = IF over THEN Refill(t2) ELSE t2
        /\ score' = score + c.gained
        /\ hasRefilledAt500' = (hasRefilledAt500 \/ r500)
        /\ lastRefillScore' = IF r800 THEN score ELSE lastRefillScore
        /\ gameState' = outcome
        /\ highScore' = NewHighScore(outcome, score, highScore)
        /\ round' = IF over THEN round + 1 ELSE round
        /\ shake' = newShake
        \* the loop effect re-runs, and takes the update closure of the new
        \* render, when gameState, score or shake changed (its dependencies
        \* [gameState, initLayout, draw], draw's [gameState, score, shake])
        /\ loopRound' = IF outcome # gameState \/ c.gained # 0 \/ newShake # shake
                        THEN (IF over THEN round + 1 ELSE round)
                        ELSE loopRound
        /\ lastOp' = "update"
        /\ UNCHANGED <<gameMode, width, height>>

-----------------------------------------------------------------------------
(* The environment.  An input is a frame of the animation loop (dt the     *)
(* time since the last frame in ms, rx and rt the Math.random() draws of   *)
(* a spawn in hundredths), a click on the canvas, or a press of one of the *)
(* buttons.  A run replays a recorded opening, script, and then makes at   *)
(* most MaxFree inputs drawn freely from the sets of its environment env:  *)
(* env.frames (dt), env.draws (<<rx, rt>>), env.points (clicks).           *)

Frame(dt, rx, rt) == [op |-> "update", dt |-> dt, rx |-> rx, rt |-> rt]
Press(p) == [op |-> "click", p |-> p]
Begin(mode) == [op |-> "startGame", mode |-> mode]
Again == [op |-> "playAgain"]

Do(in) ==
    CASE in.op = "update" -> update(in.dt, in.rx, in.rt)
      [] in.op = "click" -> handleCanvasClick(in.p)
      [] in.op = "startGame" -> startGame(in.mode)
      [] in.op = "playAgain" -> playAgain

Replay ==
    /\ script # << >>
    /\ Do(Head(script))
    /\ script' = Tail(script)
    /\ UNCHANGED budget

Free ==
    /\ script = << >>
    /\ budget > 0
    /\ budget' = budget - 1
    /\ UNCHANGED script

Tick(env) ==
    /\ Free
    /\ \E dt \in env.frames :
          IF gameState = "PLAYING" /\ dt > nextRocketTime
          THEN \E d \in env.draws : update(dt, d[1], d[2])
          ELSE update(dt, 0, 0)

Click(env) == Free /\ \E p \in env.points : handleCanvasClick(p)

Start == Free /\ \E mode \in {"CLASSIC", "ENDLESS"} : startGame(mode)

PlayAgain == Free /\ playAgain

-----------------------------------------------------------------------------
(* The inputs of the free play, on the 140 x 44 canvas: ground at y = 4,   *)
(* turrets at x = 60, 70, 80, cities at x = 25.2, 39.2, 53.2, 86.8, 100.8, *)
(* 114.8.                                                                  *)

\* just above the middle turret
Over == Point(Px(70), Px(1))

\* on the ground at the second city: level with the turrets
Side == Point(Px(39) + 20, Px(4))

\* on the ground at the fifth city: level with the turrets
Right == Point(Px(100) + 80, Px(4))

\* as far from the left turret as from the middle one
Between == Point(Px(65), Px(1))

\* 2 px below the middle turret, and the middle turret's own position
Under == Point(Px(70), Px(6))
OnTop == Point(Px(70), Px(4))

\* a rocket straight down on the second city (rx = 0.28, rt = 0.15), or on
\* the middle turret (rx = 0.50, rt = 0.80) while all nine targets stand
OnCity == <<28, 15>>
OnTurret == <<50, 80>>

Field ==
    [frames |-> {16, 2000}, draws |-> {OnCity, OnTurret}, points |-> {Over, Side}]

Next == Replay \/ Tick(Field) \/ Click(Field) \/ Start \/ PlayAgain

(* Recorded openings.  In Opening the player starts a match and fires once *)
(* at Over; every slow frame (2000 ms) then spawns a rocket over the       *)
(* middle turret, which the blast destroys in the same frame.  After       *)
(* `kills` such frames come quick frames (16 ms, no spawn) until the blast *)
(* has gone, 91 frames after it began.                                     *)

Frames(n, f) == [i \in 1..n |-> f]

Opening(mode, kills) ==
    << Begin(mode), Press(Over) >>
        \o Frames(kills, Frame(2000, OnTurret[1], OnTurret[2]))
        \o Frames(91 - kills, Frame(16, 0, 0))

\* the player empties the left turret (20 shots at Side); the first frame
\* spawns a rocket over the second city, which the blasts destroy
Emptied(mode) ==
    << Begin(mode) >> \o Frames(20, Press(Side))
        \o << Frame(16, OnCity[1], OnCity[2]) >> \o Frames(90, Frame(16, 0, 0))

\* n shots at p, then the frames in which the blasts grow and fade; a
\* rocket spawned meanwhile comes down over the middle turret
Volley(p, n) ==
    Frames(n, Press(p)) \o Frames(91, Frame(16, OnTurret[1], OnTurret[2]))

\* the player fires all rounds but the last of the right turret, twenty
\* at a time: the middle turret at Over, the left at Side, the right at
\* Right; the blasts destroy every rocket in the frame that spawns it
Drained(mode) ==
    << Begin(mode) >> \o Volley(Over, 20) \o Volley(Over, 20)
        \o Volley(Side, 20) \o Volley(Right, 19)

\* the first rocket comes down on the second city and takes the left turret
\* with its 20 rounds; the player then fires all rounds of the middle
\* turret and all but the last of the right one
Crippled(mode) ==
    << Begin(mode), Frame(16, OnCity[1], OnCity[2]), Frame(16, 0, 0),
       Frame(16, 0, 0) >>
        \o Volley(Over, 20) \o Volley(Over, 20) \o Volley(Right, 19)

\* the same match, and a rocket on its way to the right turret, two frames
\* from the ground
Overrun(mode) ==
    Crippled(mode) \o << Frame(2000, OnTurret[1], OnTurret[2]) >>
        \o Frames(5, Frame(16, 0, 0))

\* a match brought to 500 points and lost (a rocket on the middle turret
\* takes all three turrets), then a second match brought to 480 points
Rematch(mode) ==
    Opening(mode, 24)
        \o << Press(Side), Frame(2000, OnCity[1], OnCity[2]),
              Frame(2000, OnTurret[1], OnTurret[2]), Frame(16, 0, 0),
              Frame(16, 0, 0), Again >>
        \o Opening(mode, 24)

Modes == {"CLASSIC", "ENDLESS"}

StartsWith(scripts) == Boot(0) /\ script \in scripts /\ budget = MaxFree

\* a match from its start
Init == StartsWith({ <<Begin(m)>> : m \in Modes })
Spec == Init /\ [][Next]_vars

\* a match with the left turret out of ammunition
InitEmptied == StartsWith({ Emptied(m) : m \in Modes })
SpecEmptied == InitEmptied /\ [][Next]_vars

\* a match that begins with one shot at Between, Under or OnTop, and a
\* match with one round left
InitAimed ==
    StartsWith({ <<Begin("CLASSIC"), Press(p)>> : p \in {Between, Under, OnTop} }
                  \cup { Drained("CLASSIC") })
SpecAimed == InitAimed /\ [][Next]_vars

\* a match with one round left, in the right turret
InitDrained == StartsWith({ Drained(m) : m \in Modes })
SpecDrained == InitDrained /\ [][Next]_vars

\* a match whose left turret was lost with its rounds, one round left in
\* the right turret; the same with a rocket about to land
InitCrippled ==
    StartsWith({ Crippled(m) : m \in Modes } \cup { Overrun(m) : m \in Modes })
SpecCrippled == InitCrippled /\ [][Next]_vars

\* an ENDLESS match short of each refill: one round left, 480 and 780 points
InitRefills ==
    StartsWith({ Drained("ENDLESS"), Opening("ENDLESS", 24), Opening("ENDLESS", 39) })
SpecRefills == InitRefills /\ [][Next]_vars

\* a match at 480 points, the first or the one after a match lost at 500
Init500 == StartsWith({ Opening(m, 24) : m \in Modes } \cup { Rematch(m) : m \in Modes })
Spec500 == Init500 /\ [][Next]_vars

\* a match at 780 and at 980 points
Init800 == StartsWith({ Opening(m, 39) : m \in Modes })
Spec800 == Init800 /\ [][Next]_vars

Init1000 == StartsWith({ Opening(m, 49) : m \in Modes })
Spec1000 == Init1000 /\ [][Next]_vars

-----------------------------------------------------------------------------
(* Properties.  A step is recognised by what it leaves in the state:       *)
(* lastOp' names the operation.  A text made by a kill has decayed once in *)
(* the frame that made it (life 0.98); the texts of a refill are added     *)
(* after the decay (life 1).                                               *)

AllInactive(ts) == \A i \in 1..Len(ts) : ~ts[i].active

Full(ts) == \A i \in 1..Len(ts) : ts[i].active => ts[i].ammo = ts[i].maxAmmo

\* a frame of the running match
PlayingTick == gameState = "PLAYING" /\ lastOp' = "update"

KillText(t) == t.text = "+20" /\ t.life = Px(1) - 2

\* the rockets the last frame destroyed
Kills(fs) == Cardinality({i \in 1..Len(fs) : KillText(fs[i])})

FreshText(fs, text) == \E i \in 1..Len(fs) : fs[i].text = text /\ fs[i].life = Px(1)

-----------------------------------------------------------------------------

AmmoInRange ==
    \A i \in 1..Len(turrets) :
        turrets[i].ammo >= 0 /\ turrets[i].ammo <= turrets[i].maxAmmo

Launch == Len(interceptors') > Len(interceptors)

LaunchFromLoaded ==
    LET new == interceptors'[Len(interceptors')]
        t == turrets[new.turretIndex]
    IN  /\ lastOp' = "click"
        /\ t.active /\ t.ammo > 0
        /\ new.start = Point(t.x, t.y)
        /\ turrets' = [turrets EXCEPT ![new.turretIndex].ammo = t.ammo - 1]

\* C1: in every reachable state every turret has 0 <= ammo <= maxAmmo, and
\* an interceptor is only ever launched by a click, from a turret that is
\* active and has ammo left, which loses one round.
C1_AmmoBounds == []AmmoInRange /\ [][Launch => LaunchFromLoaded]_vars

\* the left turret is empty and a click has fired another turret
C1_Witness ==
    /\ lastOp = "click"
    /\ \E i \in 1..Len(turrets) : \E j \in 1..Len(interceptors) :
          /\ turrets[i].ammo = 0 /\ turrets[i].active
          /\ interceptors[j].turretIndex # i
          /\ Dist2(turrets[i], interceptors[j].target)
                < Dist2(turrets[interceptors[j].turretIndex], interceptors[j].target)

-----------------------------------------------------------------------------

States == {"START", "PLAYING", "WON", "LOST"}

Transition ==
    gameState' # gameState =>
        \/ /\ gameState = "START" /\ gameState' = "PLAYING"
           /\ lastOp' = "startGame"
        \/ /\ gameState = "PLAYING" /\ gameState' = "WON"
           /\ lastOp' = "update"
           /\ gameMode = "CLASSIC" /\ score >= WIN_SCORE
        \/ /\ gameState = "PLAYING" /\ gameState' = "LOST"
           /\ lastOp' = "update"
           /\ AllInactive(turrets')
        \/ /\ gameState \in {"WON", "LOST"} /\ gameState' = "START"

\* C2: the state is one of START, PLAYING, WON, LOST (never ROUND_OVER);
\* it changes only START -> PLAYING by startGame, PLAYING -> WON in a frame
\* of a CLASSIC match that sees a score >= 1000, PLAYING -> LOST in a frame
\* that leaves every turret inactive, and WON or LOST -> START; an ENDLESS
\* match is never WON.
C2_Transitions ==
    /\ [](gameState \in States /\ (gameState = "WON" => gameMode = "CLASSIC"))
    /\ [][Transition]_vars

\* a won match has been left for the start screen
C2_Witness == gameState = "START" /\ lastOp = "playAgain" /\ score >= WIN_SCORE

-----------------------------------------------------------------------------

\* C3: in a CLASSIC match a frame that sees a score >= 1000 ends the match
\* WON, and a frame that takes the score to 1000 or more does not end it
\* LOST.
C3_ClassicWin ==
    [][PlayingTick /\ gameMode = "CLASSIC" =>
          /\ score >= WIN_SCORE => gameState' = "WON"
          /\ score' >= WIN_SCORE => gameState' # "LOST"]_vars

-----------------------------------------------------------------------------

\* C4, as stated: a frame of a running match that leaves every turret
\* inactive ends the match LOST, whatever the mode and the score.
C4_LostWhatever ==
    [][PlayingTick /\ AllInactive(turrets') => gameState' = "LOST"]_vars

\* C4, amended: a frame of a running match that leaves every turret
\* inactive ends the match LOST, unless the mode is CLASSIC and the score
\* the frame sees is >= 1000: then it ends the match WON.
C4_LostUnlessWon ==
    [][PlayingTick /\ AllInactive(turrets') =>
          gameState' = IF gameMode = "CLASSIC" /\ score >= WIN_SCORE
                       THEN "WON" ELSE "LOST"]_vars

\* a match won in the frame that took the last turret
C4_Witness ==
    lastOp = "update" /\ AllInactive(turrets) /\ gameState = "WON"

-----------------------------------------------------------------------------

\* C5: while the state is not PLAYING a frame and a click change nothing:
\* the entities, the score, the round, the turrets and cities, the refill
\* latches, the high score, the mode and the state stay as they are.
C5_Halted ==
    [][gameState # "PLAYING" /\ lastOp' \in {"update", "click"} =>
          UNCHANGED <<rockets, interceptors, explosions, particles,
                      floatingTexts, warnings, score, round, turrets, cities,
                      hasRefilledAt500, lastRefillScore, highScore, shake,
                      gameMode, gameState>>]_vars

\* a click, after a frame, on the field of a match that has ended with
\* rockets still in the air
C5_Witness ==
    /\ gameState \in {"WON", "LOST"}
    /\ lastOp = "click"
    /\ rockets # << >>
    /\ nextRocketTime = 0

-----------------------------------------------------------------------------

\* the greatest multiple of 800 the score has reached
Crossed(sc) == 800 * (sc \div 800)

\* C6: in an ENDLESS match, a frame that sees a score which has crossed a
\* positive multiple of 800 not yet answered by a refill leaves every
\* active turret with maxAmmo, however many rockets took the score there.
C6_RefillEachCrossing ==
    [][PlayingTick /\ gameMode = "ENDLESS" /\ lastRefillScore < Crossed(score)
          => Full(turrets') /\ lastRefillScore' = score]_vars

-----------------------------------------------------------------------------

\* the 800-point refill has fired in this step
Fired800 ==
    /\ PlayingTick
    /\ \/ FreshText(floatingTexts', "800PT REFILL!")
       \/ lastRefillScore' # lastRefillScore

\* C7: the 800-point refill fires only in an ENDLESS match, at a score that
\* is a positive multiple of 800 and is not the score of the last refill;
\* it records that score, and the record is otherwise changed only by
\* startGame: while the score stays where it is there is no second refill.
C7_Refill800Once ==
    /\ [][Fired800 =>
            /\ gameMode = "ENDLESS"
            /\ score > 0 /\ score % 800 = 0
            /\ lastRefillScore # score
            /\ lastRefillScore' = score]_vars
    /\ [][lastRefillScore' # lastRefillScore =>
            Fired800 \/ (lastOp' = "startGame" /\ lastRefillScore' = 0)]_vars
    /\ [](gameMode = "CLASSIC" => lastRefillScore = 0)

\* a second frame has seen the score at 800, where the refill has fired
C7_Witness ==
    /\ lastOp = "update" /\ gameState = "PLAYING"
    /\ score = 800 /\ lastRefillScore = 800
    /\ \E i \in 1..Len(floatingTexts) :
          floatingTexts[i].text = "800PT REFILL!" /\ floatingTexts[i].life = Px(1) - 2

-----------------------------------------------------------------------------

\* the 500-point refill has fired in this step
Fired500 == PlayingTick /\ FreshText(floatingTexts', "UNIVERSE MODE ACTIVATED!")

\* C8: the 500-point refill fires in the first frame of a match that sees
\* a score >= 500, leaving every active turret with maxAmmo, and in no
\* later frame of the match: it fires exactly when the score seen is >= 500
\* and the latch is open, it closes the latch, and the latch is opened
\* again only by startGame, which always opens it.
C8_Refill500Once ==
    /\ [][PlayingTick =>
            (Fired500 <=> score >= 500 /\ ~hasRefilledAt500)]_vars
    /\ [][Fired500 => Full(turrets') /\ hasRefilledAt500']_vars
    /\ [][hasRefilledAt500 /\ ~hasRefilledAt500' => lastOp' = "startGame"]_vars
    /\ [][lastOp' = "startGame" => ~hasRefilledAt500']_vars
    /\ [](hasRefilledAt500 => score >= 500)

\* the refill has fired in a match that follows one lost at 500 points,
\* and a later frame of that match has not fired it again
C8_Witness ==
    /\ highScore >= 500
    /\ gameState = "PLAYING" /\ lastOp = "update"
    /\ hasRefilledAt500
    /\ \E i \in 1..Len(floatingTexts) :
          /\ floatingTexts[i].text = "UNIVERSE MODE ACTIVATED!"
          /\ floatingTexts[i].life = Px(1) - 2

-----------------------------------------------------------------------------

\* C9: after a frame that destroyed a rocket, the explosions hold a growing
\* explosion of radius 2 and maxRadius 75 at the place where the rocket was
\* (a kill text has risen 1 px above it).
C9_ChainExplosion ==
    lastOp = "update" =>
        \A i \in 1..Len(floatingTexts) : KillText(floatingTexts[i]) =>
            \E j \in 1..Len(explosions) :
                /\ explosions[j].pos = Point(floatingTexts[i].x,
                                             floatingTexts[i].y + Px(1))
                /\ explosions[j].radius = Px(2)
                /\ explosions[j].maxRadius = EXPLOSION_MAX_RADIUS
                /\ explosions[j].growing

-----------------------------------------------------------------------------

\* the rockets that left the field in this step without reaching the
\* ground: those there before and those spawned (one warning each), less
\* those that landed (one impact explosion each, maxRadius 55, grown once)
\* and those still there
Gone ==
    LET spawned == Cardinality({i \in 1..Len(warnings') :
                                   warnings'[i].life = Px(1) - 2})
        landed == Cardinality({i \in 1..Len(explosions') :
                                  /\ explosions'[i].maxRadius = Px(55)
                                  /\ explosions'[i].radius = Px(2) + EXPLOSION_SPEED})
    IN  Len(rockets) + spawned - landed - Len(rockets')

\* C10: the score changes only in a frame of a running match, by 20 for
\* each rocket an explosion destroyed in that frame, and in startGame,
\* which begins a match at 0; nothing else changes it.
C10_ScoreSteps ==
    /\ [][PlayingTick => /\ score' = score + ROCKET_SCORE * Kills(floatingTexts')
                         /\ Kills(floatingTexts') = Gone]_vars
    /\ [][~PlayingTick => score' = IF lastOp' = "startGame" THEN 0 ELSE score]_vars

\* one frame has destroyed two rockets, and a rocket has reached the ground
C10_Witness ==
    /\ lastOp = "update"
    /\ Kills(floatingTexts) = 2
    /\ score >= 2 * ROCKET_SCORE
    /\ \E i \in 1..Len(cities) : ~cities[i].active

-----------------------------------------------------------------------------

\* C11: the round changes only in startGame, which sets it to 1, and in a
\* frame of the running match that ends with no rocket and no interceptor
\* left and in which every turret, active or not, had ammo 0; that frame
\* adds exactly 1.
C11_RoundAdvance ==
    [][round' # round =>
          \/ lastOp' = "startGame" /\ round' = 1
          \/ /\ PlayingTick
             /\ round' = round + 1
             /\ rockets' = << >> /\ interceptors' = << >>
             /\ \A i \in 1..Len(turrets) : turrets[i].ammo = 0]_vars

\* the last round has been fired and a frame has advanced the round
C11_Witness ==
    /\ lastOp = "update" /\ gameState = "PLAYING"
    /\ round = 2
    /\ Full(turrets)

-----------------------------------------------------------------------------

\* the turrets a click can fire
Loaded == {i \in 1..Len(turrets) : turrets[i].active /\ turrets[i].ammo > 0}

\* what a click leaves alone
Untouched ==
    UNCHANGED <<gameState, gameMode, score, highScore, round, shake,
                hasRefilledAt500, lastRefillScore, rockets, explosions,
                particles, floatingTexts, warnings, cities, nextRocketTime>>

Fires ==
    LET n == Len(interceptors)
        new == interceptors'[n + 1]
        b == new.turretIndex
        p == new.target
    IN  /\ Len(interceptors') = n + 1
        /\ SubSeq(interceptors', 1, n) = interceptors
        /\ b \in Loaded
        /\ \A j \in Loaded :
              \/ Dist2(turrets[b], p) < Dist2(turrets[j], p)
              \/ Dist2(turrets[b], p) = Dist2(turrets[j], p) /\ b <= j
        /\ new.start = Point(turrets[b].x, turrets[b].y)
        /\ new.current = Cur(turrets[b].x, turrets[b].y)
        /\ script # << >> => p = Head(script).p
        /\ turrets' = [turrets EXCEPT ![b].ammo = @ - 1]

\* C12: a click while PLAYING fires, among the turrets that are active and
\* have ammo, one of minimum distance to the click point, the lowest index
\* among equals: that turret alone loses exactly one round, and exactly one
\* interceptor is added, from the turret's position to the click point;
\* with no such turret the click changes nothing.
C12_ClickFires ==
    [][gameState = "PLAYING" /\ lastOp' = "click" =>
          /\ Untouched
          /\ IF Loaded = {} THEN UNCHANGED <<turrets, interceptors>> ELSE Fires]_vars

\* a click as far from the left turret as from the middle one has fired
\* the left turret
C12_Witness ==
    /\ lastOp = "click"
    /\ \E j \in 1..Len(interceptors) :
          /\ interceptors[j].turretIndex = 1
          /\ Dist2(turrets[1], interceptors[j].target)
                = Dist2(turrets[2], interceptors[j].target)
          /\ turrets[2].active /\ turrets[2].ammo > 0

-----------------------------------------------------------------------------

\* the square of the distance a projectile has come from its start
Travelled(m) ==
    (m.current.x - m.start.x) * (m.current.x - m.start.x)
        + (m.current.y - m.start.y) * (m.current.y - m.start.y)

\* the square of the distance between two points
Apart(a, b) == (a.x - b.x) * (a.x - b.x) + (a.y - b.y) * (a.y - b.y)

\* C13: every interceptor in flight is on its way to detonate at its click
\* target: it has a position, and it has not yet come as far as the target
\* is from the turret, so that a finite number of further frames brings it
\* there - wherever the click point lies, level with or below the turret
\* included (a click on the turret's own position is the case of C14).
C13_InterceptorArrives ==
    \A j \in 1..Len(interceptors) :
        interceptors[j].start # interceptors[j].target =>
            /\ ~interceptors[j].current.nan
            /\ Travelled(interceptors[j])
                  < Apart(interceptors[j].start, interceptors[j].target)

-----------------------------------------------------------------------------

\* C14: no rocket and no interceptor in flight has an undefined position,
\* and one whose start is its destination does not outlive its first frame.
C14_NoUndefinedPosition ==
    /\ \A j \in 1..Len(rockets) : ~rockets[j].current.nan
    /\ \A j \in 1..Len(interceptors) :
          /\ ~interceptors[j].current.nan
          /\ interceptors[j].start = interceptors[j].target =>
                lastOp = "click"

-----------------------------------------------------------------------------

\* where the next frame takes rocket r
Arrival(r) == Advance(r.current, r.start, r.end, r.speed)

\* the rockets that reach the ground in the next frame
Landing == {i \in 1..Len(rockets) : Arrival(rockets[i]).y >= rockets[i].end.y}

\* the explosion of an impact at p, after the growth step of its first frame
ImpactAt(p) ==
    [pos |-> Point(p.x, p.y), radius |-> Px(2) + EXPLOSION_SPEED,
     maxRadius |-> Px(55), growing |-> TRUE, alpha |-> Px(1)]

\* seq with exactly those active structures made inactive that are less
\* than 25 px, in x, from an impact of this step
AfterImpacts(seq) ==
    [k \in 1..Len(seq) |->
        IF seq[k].active
              /\ \E i \in Landing : Abs(seq[k].x - Arrival(rockets[i]).x) < Px(25)
        THEN [seq[k] EXCEPT !.active = FALSE] ELSE seq[k]]

SameButAmmo(ts, us) ==
    /\ Len(ts) = Len(us)
    /\ \A k \in 1..Len(ts) : ts[k] = [us[k] EXCEPT !.ammo = ts[k].ammo]

\* C15: in the frame in which a rocket's current.y reaches end.y the rocket
\* is removed and one explosion of maxRadius 55 is created where it
\* arrived; exactly the active cities and turrets less than 25 px, in x,
\* from an impact become inactive; and a frame with impacts but no rocket
\* destroyed by an explosion leaves the score as it is.
C15_Impact ==
    [][PlayingTick =>
          /\ \A k \in 1..Len(rockets') : rockets'[k].current.y < rockets'[k].end.y
          /\ \A i \in Landing : \E k \in 1..Len(explosions') :
                explosions'[k] = ImpactAt(Arrival(rockets[i]))
          /\ Cardinality({k \in 1..Len(explosions') :
                             explosions'[k].maxRadius = Px(55)
                             /\ explosions'[k].radius = Px(2) + EXPLOSION_SPEED})
                = Cardinality(Landing)
          /\ cities' = AfterImpacts(cities)
          /\ SameButAmmo(turrets', AfterImpacts(turrets))
          /\ Kills(floatingTexts') = 0 => score' = score]_vars

\* a rocket has come down on the second city: the left turret is inactive,
\* the middle one is not, and the score is as it was
C15_Witness ==
    /\ lastOp = "update"
    /\ \E k \in 1..Len(explosions) :
          explosions[k].maxRadius = Px(55)
          /\ explosions[k].radius = Px(2) + EXPLOSION_SPEED
    /\ ~turrets[1].active /\ turrets[2].active
    /\ ~cities[1].active /\ cities[4].active
    /\ score = 0

-----------------------------------------------------------------------------

\* the rockets spawned in this step: each comes with a warning, which has
\* decayed once
SpawnedNow ==
    Cardinality({k \in 1..Len(warnings') : warnings'[k].life = Px(1) - 2})

\* the rockets that have left the collection in this step
LeftNow == Len(rockets) + SpawnedNow - Len(rockets')

\* C16: in a frame every rocket that leaves the collection leaves it by
\* one cause and is counted once: the rockets that have left are those
\* that reached the ground and those destroyed by an explosion, no rocket
\* being both, and the score grows by 20 for each rocket that left without
\* reaching the ground, however many explosions it was in.
C16_LeavesOnce ==
    [][PlayingTick =>
          /\ LeftNow = Cardinality(Landing) + Kills(floatingTexts')
          /\ score' = score + ROCKET_SCORE * (LeftNow - Cardinality(Landing))]_vars

\* one rocket has been destroyed inside two explosions, for 20 points
C16_Witness ==
    /\ lastOp = "update"
    /\ score = ROCKET_SCORE
    /\ \E i \in 1..Len(floatingTexts) :
          /\ KillText(floatingTexts[i])
          /\ \E j, k \in 1..Len(explosions) :
                /\ j # k
                /\ Within(Point(floatingTexts[i].x, floatingTexts[i].y + Px(1)),
                          explosions[j].pos, explosions[j].radius)
                /\ Within(Point(floatingTexts[i].x, floatingTexts[i].y + Px(1)),
                          explosions[k].pos, explosions[k].radius)

-----------------------------------------------------------------------------

\* C17: every explosion of the collection has 0 <= radius <= maxRadius.
C17_RadiusBounded ==
    \A k \in 1..Len(explosions) :
        explosions[k].radius >= 0 /\ explosions[k].radius <= explosions[k].maxRadius

-----------------------------------------------------------------------------

\* C18: the frame that ends a match LOST stores the score it sees when
\* that score exceeds the stored high score, and leaves the high score as
\* it is otherwise; no step ever lowers the stored high score.
C18_HighScoreOnLoss ==
    /\ [][gameState = "PLAYING" /\ gameState' = "LOST" =>
            highScore' = IF score > highScore THEN score ELSE highScore]_vars
    /\ [][highScore' >= highScore]_vars

\* a match lost at 500 points has set the high score, and a second match
\* lost with fewer points has left it there
C18_Witness ==
    /\ gameState = "LOST" /\ lastOp = "update"
    /\ highScore = 500
    /\ score > 0 /\ score < highScore

-----------------------------------------------------------------------------

\* C19: after a match has ended, WON or LOST, the stored high score is at
\* least the score the match ended with.
C19_HighScoreCoversFinal ==
    gameState \in {"WON", "LOST"} => highScore >= score

-----------------------------------------------------------------------------

\* C20: a turret or a city that is inactive stays inactive in every step
\* but those that lay the field out again: startGame and the return to the
\* start screen.
C20_NoRevival ==
    [][lastOp' \notin {"startGame", "playAgain"} =>
          /\ Len(turrets') = Len(turrets) /\ Len(cities') = Len(cities)
          /\ \A k \in 1..Len(turrets) : ~turrets[k].active => ~turrets'[k].active
          /\ \A k \in 1..Len(cities) : ~cities[k].active => ~cities'[k].active]_vars

\* the round has advanced with the left turret inactive: the refill has
\* left it inactive and empty
C20_Witness ==
    /\ lastOp = "update"
    /\ round = 2
    /\ ~turrets[1].active /\ turrets[1].ammo = 0
    /\ turrets[3].active /\ turrets[3].ammo = turrets[3].maxAmmo

-----------------------------------------------------------------------------

\* C21: startGame(mode) leaves the state PLAYING with score 0, round 1, the
\* mode given, both refill latches reset, the six collections empty, and
\* 3 turrets and 6 cities, all active, every turret at its maxAmmo.
C21_FreshMatch ==
    [][lastOp' = "startGame" =>
          /\ gameState' = "PLAYING"
          /\ score' = 0 /\ round' = 1
          /\ gameMode' \in Modes
          /\ script # << >> => gameMode' = Head(script).mode
          /\ hasRefilledAt500' = FALSE /\ lastRefillScore' = 0
          /\ rockets' = << >> /\ interceptors' = << >> /\ explosions' = << >>
          /\ particles' = << >> /\ floatingTexts' = << >> /\ warnings' = << >>
          /\ Len(turrets') = 3 /\ Len(cities') = 6
          /\ \A k \in 1..3 : turrets'[k].active /\ turrets'[k].ammo = turrets'[k].maxAmmo
          /\ \A k \in 1..6 : cities'[k].active]_vars

\* a match has begun after one in which a rocket reached the ground and
\* rounds were fired
C21_Witness ==
    /\ lastOp = "startGame"
    /\ shake > 0
    /\ highScore > 0

-----------------------------------------------------------------------------

\* C22: a match reset cancels the pending rocket-spawn timer: when a match
\* begins no wait scheduled by an earlier match remains, so that its first
\* frame spawns the first rocket, as in the first match after mounting.
C22_TimerCancelled ==
    lastOp = "startGame" => nextRocketTime = 0

-----------------------------------------------------------------------------

\* the positions of the cities and turrets that are active
ActiveSpots(cs, ts) ==
    {Point(cs[i].x, cs[i].y) : i \in {j \in 1..Len(cs) : cs[j].active}}
        \cup {Point(ts[i].x, ts[i].y) : i \in {j \in 1..Len(ts) : ts[j].active}}

\* a rocket that has moved once from its start point: spawned in this frame
JustSpawned(r) ==
    r.current = Advance(Cur(r.start.x, r.start.y), r.start, r.end, r.speed)

\* a warning that has decayed once: pushed in this frame
JustWarned(w) == w.life = Px(1) - 2

\* C23: in a frame, a rocket created by the spawner ends at the position of
\* a turret or city that was active when the frame began, and comes with
\* the one warning of the frame, at its start x; a frame creates at most one
\* warning and no more rockets than warnings, and none of either when no
\* turret or city is active.
C23_SpawnTargets ==
    [][PlayingTick =>
          LET fresh == {k \in 1..Len(rockets') : JustSpawned(rockets'[k])}
              warned == {k \in 1..Len(warnings') : JustWarned(warnings'[k])}
          IN  /\ Cardinality(warned) <= 1
              /\ Cardinality(fresh) <= Cardinality(warned)
              /\ Len(rockets') <= Len(rockets) + Cardinality(warned)
              /\ Len(warnings') <= Len(warnings) + Cardinality(warned)
              /\ \A k \in fresh :
                    /\ rockets'[k].end \in ActiveSpots(cities, turrets)
                    /\ rockets'[k].start.y = 0
                    /\ \E j \in warned : warnings'[j].x = rockets'[k].start.x
              /\ ActiveSpots(cities, turrets) = {} => warned = {}]_vars

\* a frame has spawned a rocket, with its warning, while some cities and a
\* turret were already lost
C23_Witness ==
    /\ lastOp = "update"
    /\ gameState = "PLAYING"
    /\ \E k \in 1..Len(cities) : ~cities[k].active
    /\ \E k \in 1..Len(turrets) : ~turrets[k].active
    /\ \E k \in 1..Len(rockets) :
          /\ JustSpawned(rockets[k])
          /\ rockets[k].end \in ActiveSpots(cities, turrets)
          /\ \E j \in 1..Len(warnings) :
                JustWarned(warnings[j]) /\ warnings[j].x = rockets[k].start.x

-----------------------------------------------------------------------------

\* q is rocket r one frame earlier, and was farther from the end point
FartherBefore(r, q) ==
    /\ q.start = r.start /\ q.end = r.end /\ q.speed = r.speed
    /\ ~q.current.nan
    /\ Apart(r.current, r.end) < Apart(q.current, q.end)

\* C24: a rocket that is in the collection after a frame has not arrived
\* (current.y < end.y) and is nearer to its end point than it was before
\* the frame - than its start point, when the frame spawned it.
C24_RocketApproaches ==
    [][PlayingTick =>
          \A k \in 1..Len(rockets') :
              LET r == rockets'[k]
              IN  /\ ~r.current.nan
                  /\ r.current.y < r.end.y
                  /\ \/ \E i \in 1..Len(rockets) : FartherBefore(r, rockets[i])
                     \/ /\ JustSpawned(r)
                        /\ Apart(r.current, r.end) < Apart(r.start, r.end)]_vars

\* a rocket in flight that has moved in more frames than the one that
\* spawned it, and has not arrived
C24_Witness ==
    /\ lastOp = "update"
    /\ gameState = "PLAYING"
    /\ \E k \in 1..Len(rockets) :
          /\ ~JustSpawned(rockets[k])
          /\ Travelled(rockets[k]) > 0
          /\ rockets[k].current.y < rockets[k].end.y
          /\ rockets[k].start.x # rockets[k].end.x

-----------------------------------------------------------------------------

\* an explosion after the frame that created it: it has grown once
Born(e) ==
    e.growing /\ e.radius = Px(2) + EXPLOSION_SPEED /\ e.alpha = Px(1)

\* e is explosion d one frame later: while d grows the radius rises, alpha
\* stays, and growing ends when the radius has reached maxRadius; once d
\* shrinks, radius and alpha fall and growing stays false
Follows(e, d) ==
    /\ e.pos = d.pos /\ e.maxRadius = d.maxRadius
    /\ IF d.growing
       THEN /\ e.radius > d.radius
            /\ e.alpha = d.alpha
            /\ e.growing <=> e.radius < e.maxRadius
       ELSE /\ ~e.growing
            /\ e.radius < d.radius
            /\ e.alpha < d.alpha

\* the next frame brings the radius or alpha of d to 0 or below
Fading(d) ==
    /\ ~d.growing
    /\ d.radius <= (EXPLOSION_SPEED * 4) \div 10 \/ d.alpha <= 2

\* C25: in a frame, every explosion kept is one created in the frame or one
\* of the frame before taken a step further in its phase (radius up while
\* growing, radius and alpha down while shrinking, growing never back to
\* true), with radius and alpha above 0; and the explosions that leave are
\* exactly those whose radius or alpha the frame brings to 0 or below.
\* The strict fall of alpha in the second phase bounds the life of each.
C25_ExplosionLifecycle ==
    [][PlayingTick =>
          /\ \A k \in 1..Len(explosions') :
                /\ explosions'[k].radius > 0 /\ explosions'[k].alpha > 0
                /\ \/ Born(explosions'[k])
                   \/ \E i \in 1..Len(explosions) :
                          Follows(explosions'[k], explosions[i])
          /\ Len(explosions')
                = Cardinality({i \in 1..Len(explosions) : ~Fading(explosions[i])})
                  + Cardinality({k \in 1..Len(explosions') : Born(explosions'[k])})]_vars

\* an explosion has grown to its maxRadius, shrunk, and is in its last frame
C25_Witness ==
    /\ lastOp = "update"
    /\ gameState = "PLAYING"
    /\ \E k \in 1..Len(explosions) :
          Fading(explosions[k]) /\ explosions[k].radius < explosions[k].maxRadius

-----------------------------------------------------------------------------

\* turret k was lost with rounds left
LostLoaded(k) == ~turrets[k].active /\ turrets[k].ammo > 0

\* C26: while a turret is inactive with ammo above 0, no click and no frame
\* changes that turret, and none advances the round.
C26_DeadTurretBlocksRound ==
    [][(lastOp' \in {"click", "update"} /\ \E k \in 1..Len(turrets) : LostLoaded(k)) =>
          /\ Len(turrets') = Len(turrets)
          /\ \A k \in 1..Len(turrets) : LostLoaded(k) => turrets'[k] = turrets[k]
          /\ round' = round]_vars

\* a frame has run with no rocket and no interceptor in flight and every
\* active turret out of ammunition; a turret lost with rounds left is there,
\* and the round is still the first
C26_Witness ==
    /\ lastOp = "update"
    /\ gameState = "PLAYING"
    /\ rockets = << >> /\ interceptors = << >>
    /\ \E k \in 1..Len(turrets) : LostLoaded(k)
    /\ \E k \in 1..Len(turrets) : turrets[k].active
    /\ \A k \in 1..Len(turrets) : turrets[k].active => turrets[k].ammo = 0
    /\ round = 1

-----------------------------------------------------------------------------

\* C27: a frame that runs in state PLAYING begins with a turret active, so
\* the spawner's list of targets is not empty; and a frame in which the
\* spawn was due (the time to the next spawn has not fallen) has pushed the
\* warning of its rocket: the branch that skips the spawn is not taken.
C27_TargetPoolNeverEmpty ==
    [][PlayingTick =>
          /\ \E k \in 1..Len(turrets) : turrets[k].active
          /\ Len(Targets(cities, turrets)) > 0
          /\ nextRocketTime' >= nextRocketTime =>
                \E j \in 1..Len(warnings') : JustWarned(warnings'[j])]_vars

\* a frame of a match that has lost a turret has spawned a rocket, and the
\* match goes on
C27_Witness ==
    /\ lastOp = "update"
    /\ gameState = "PLAYING"
    /\ \E k \in 1..Len(turrets) : ~turrets[k].active
    /\ \E j \in 1..Len(warnings) : JustWarned(warnings[j])
    /\ nextRocketTime = SpawnInterval(loopRound)

====
